---- MODULE Spec2Model ----
(***************************************************************************)
(* Model of the event queueing and deferred dispatch core of the memory    *)
(* profiler extension: the growable record store of queue.h and the        *)
(* double-buffered event store of events.c.                                *)
(***************************************************************************)
EXTENDS Integers, Sequences, FiniteSets, TLC

\* Width in bits of size_t in the model; all size_t arithmetic is modulo 2^W.
W == 14

\* Number of distinct objects the producers report on (each at most one
\* NEWOBJ and one FREEOBJ record).
MaxObjects == 2

\* Number of successful pushes onto the stand-alone queue.
MaxPush == 260

\* Number of clears of the stand-alone queue.
MaxClear == 1

\* Number of pushes onto the stand-alone queue that fail.
MaxFail == 1

\* Number of calls of Memory_Profiler_Events_instance.
MaxCalls == 10

\* queue.h:13
MEMORY_PROFILER_QUEUE_DEFAULT_COUNT == 128

\* sizeof(struct Memory_Profiler_Event): an enum padded to 8 bytes and four
\* 8-byte VALUEs (events.h:16-30).
EventSize == 40

SizeMod == 2 ^ W
SIZE_MAX == SizeMod - 1

\* size_t multiplication.
Mul(a, b) == (a * b) % SizeMod

\* size_t addition.
Add(a, b) == (a + b) % SizeMod

Qnil == "nil"
NEWOBJ == "NEWOBJ"
FREEOBJ == "FREEOBJ"
NONE == "NONE"

\* Memory that realloc handed out and nobody has written yet.
Uninit == "uninit"
UninitSlot ==
  [type |-> Uninit, capture |-> Uninit, klass |-> Uninit,
   allocations |-> Uninit, object |-> Uninit]

\* A block of memory: the number of whole elements it holds and the
\* elements written so far; every other element is uninitialized.
\* The NULL base pointer is a block with no elements.
NULL == [slots |-> 0, mem |-> <<>>]

Load(base, i) == IF i \in DOMAIN base.mem THEN base.mem[i] ELSE UninitSlot

Store(base, i, slot) == [base EXCEPT !.mem = (i :> slot) @@ @]

\* The event store (events.c:15-29): queues, available and processing (the
\* indices of the two queues in their roles) and processing_flag.
\* The host: triggered, the postponed job is requested and has not run yet.
\* The drain: pc is "idle" outside process_queue, "loop" at the loop test,
\* "handler" inside the handler of slot index, "raising" when process_all
\* has raised in that handler; via names the caller of the running drain.
\* batch records, at the swap of the running drain, the number of records
\* dispatched before it (first) and the count of the queue it took (count).
\* Histories: enqueued and dispatched (the records, in order), warnings (the
\* number of rb_warning calls), allocated and freed (the objects reported so
\* far), last (the last operation and how it ended).
\* The stand-alone queue: queue, pushed (the records written since the last
\* clear), serial (successful pushes), clears, fails.
\* The stand-alone resize: resize_in (queue, required capacity) and
\* resize_out (the outcome).
\* The accessor: instance and events (the statics of
\* Memory_Profiler_Events_instance, NoStore or the number of a store),
\* stores (the stores constructed so far), registered (the calls of
\* rb_postponed_job_preregister that gave a handle), pinned (the stores
\* handed to rb_gc_register_mark_object), calls, result (how the last call
\* ended and what it returned).
VARIABLES
  queues, available, processing, processing_flag,
  triggered, pc, index, via, batch, enqueued, dispatched, warnings,
  allocated, freed, last,
  queue, pushed, serial, clears, fails, resize_in, resize_out,
  instance, events, stores, registered, pinned, calls, result

evars ==
  <<queues, available, processing, processing_flag, triggered, pc, index,
    via, batch, enqueued, dispatched, warnings, allocated, freed, last>>
qvars == <<queue, pushed, serial, clears, fails, resize_in, resize_out>>
ivars == <<instance, events, stores, registered, pinned, calls, result>>
vars == <<evars, qvars, ivars>>

----------------------------------------------------------------------------
\* queue.h

Queue_initialize(element_size) ==
  [base |-> NULL, capacity |-> 0, count |-> 0, element_size |-> element_size]

\* An allocation of a new block that does not copy the old contents.
Realloc_fresh(base, bytes, element_size) ==
  [slots |-> bytes \div element_size, mem |-> <<>>]

\* realloc(base, bytes): the old contents are kept up to the smaller of the
\* two sizes, the rest of the new block is uninitialized.
Realloc(base, bytes, element_size) ==
  LET slots == bytes \div element_size
      kept == {k \in DOMAIN base.mem : k < slots}
  IN [slots |-> slots, mem |-> [k \in kept |-> base.mem[k]]]

\* The doubling loop of Queue_resize (queue.h:66-72). Yields the outcomes
\* [overflow, trap, capacity]: the capacity the loop ends with, overflow when
\* it returns -1, trap when the division faults. A zero divisor is undefined
\* behaviour: the division traps, or yields 0 and the test rejects.
RECURSIVE Queue_resize_double(_, _, _)
Queue_resize_double(new_capacity, required_capacity, element_size) ==
  IF new_capacity < required_capacity
  THEN LET divisor == Mul(2, element_size) IN
       IF divisor = 0
       THEN {[overflow |-> FALSE, trap |-> TRUE, capacity |-> new_capacity],
             [overflow |-> TRUE, trap |-> FALSE, capacity |-> new_capacity]}
       ELSE IF new_capacity > (SIZE_MAX \div divisor)
       THEN {[overflow |-> TRUE, trap |-> FALSE, capacity |-> new_capacity]}
       ELSE Queue_resize_double(Mul(new_capacity, 2), required_capacity,
                                element_size)
  ELSE {[overflow |-> FALSE, trap |-> FALSE, capacity |-> new_capacity]}

\* Queue_resize: the set of outcomes [ret, trap, bytes, queue]. ret is the
\* returned int, bytes the size handed to realloc (0 when it is not called),
\* trap tells that the call never returned. realloc may return NULL.
Queue_resize(q, required_capacity) ==
  IF required_capacity <= q.capacity
  THEN {[ret |-> 0, trap |-> FALSE, bytes |-> 0, queue |-> q]}
  ELSE
    LET start == IF q.capacity = 0 THEN MEMORY_PROFILER_QUEUE_DEFAULT_COUNT
                 ELSE q.capacity
        Final(d) ==
          IF d.trap
          THEN {[ret |-> -1, trap |-> TRUE, bytes |-> 0, queue |-> q]}
          ELSE IF d.overflow \/ d.capacity > (SIZE_MAX \div q.element_size)
          THEN {[ret |-> -1, trap |-> FALSE, bytes |-> 0, queue |-> q]}
          ELSE LET bytes == Mul(d.capacity, q.element_size) IN
               {[ret |-> -1, trap |-> FALSE, bytes |-> bytes, queue |-> q],
                [ret |-> 1, trap |-> FALSE, bytes |-> bytes,
                 queue |-> [q EXCEPT
                              !.base = Realloc(q.base, bytes, q.element_size),
                              !.capacity = d.capacity]]}
    IN UNION {Final(d) :
                d \in Queue_resize_double(start, required_capacity,
                                          q.element_size)}

\* Queue_push with the count raised before the capacity is ensured, so that
\* a failed growth leaves it raised.
Queue_push_count_first(q) ==
  LET new_count == Add(q.count, 1) IN
  IF new_count > q.capacity
  THEN {IF r.ret = -1
        THEN [element |-> -1, trap |-> r.trap,
              queue |-> [r.queue EXCEPT !.count = new_count]]
        ELSE [element |-> q.count, trap |-> FALSE,
              queue |-> [r.queue EXCEPT !.count = new_count]] :
        r \in Queue_resize(q, new_count)}
  ELSE {[element |-> q.count, trap |-> FALSE,
         queue |-> [q EXCEPT !.count = new_count]]}

\* Queue_push: the set of outcomes [element, trap, queue]; element is the
\* index of the reserved tail slot, or -1 for the NULL return.
Queue_push(q) ==
  LET new_count == Add(q.count, 1) IN
  IF new_count > q.capacity
  THEN {IF r.ret = -1
        THEN [element |-> -1, trap |-> r.trap, queue |-> r.queue]
        ELSE [element |-> q.count, trap |-> FALSE,
              queue |-> [r.queue EXCEPT !.count = Add(q.count, 1)]] :
        r \in Queue_resize(q, new_count)}
  ELSE {[element |-> q.count, trap |-> FALSE,
         queue |-> [q EXCEPT !.count = Add(q.count, 1)]]}

\* Queue_clear that gives the storage back.
Queue_clear_release(q) == [q EXCEPT !.count = 0, !.capacity = 0, !.base = NULL]

\* Queue_clear that leaves the count as it is.
Queue_clear_keep(q) == q

Queue_clear(q) == [q EXCEPT !.count = 0]

\* Queue_at: the slot at index; the assertion index < count is the guard of
\* every use.
Queue_at(q, i) == Load(q.base, i)

----------------------------------------------------------------------------
\* events.c

\* The record enqueue stores in a reserved slot (events.c:193-198); the
\* allocations field of the slot is not written.
WriteEvent(slot, type, capture, klass, object) ==
  [slot EXCEPT !.type = type, !.capture = capture, !.klass = klass,
               !.object = object]

\* The reset of a slot that forgets the references.
ClearEvent_type_only(slot) == [slot EXCEPT !.type = NONE]

\* The slot as drain leaves it after the dispatch (events.c:290-293).
ClearEvent(slot) ==
  [slot EXCEPT !.type = NONE, !.capture = Qnil, !.klass = Qnil,
               !.object = Qnil]

\* What identifies a record in the histories.
Record(type, capture, klass, object) ==
  [type |-> type, capture |-> capture, klass |-> klass, object |-> object]

RecordOf(slot) == Record(slot.type, slot.capture, slot.klass, slot.object)

\* The events the trace points may report next: the creation of the next
\* object, or the destruction of an object created and not yet destroyed.
NextEvents ==
  {[type |-> NEWOBJ, object |-> o] : o \in {allocated + 1} \cap 1..MaxObjects}
  \cup {[type |-> FREEOBJ, object |-> o] : o \in (1..allocated) \ freed}

Reported(ev) ==
  /\ allocated' = IF ev.type = NEWOBJ THEN ev.object ELSE allocated
  /\ freed' = IF ev.type = FREEOBJ THEN freed \cup {ev.object} ELSE freed

\* Code outside the drain loop is running: a producer at top level, or a
\* handler called by the drain.
Running == pc \in {"idle", "handler"}

\* Memory_Profiler_Events_new: the state after construction.
Memory_Profiler_Events_new ==
  /\ queues = [n \in {0, 1} |-> Queue_initialize(EventSize)]
  /\ available = 0
  /\ processing = 1
  /\ processing_flag = 0
  /\ triggered = FALSE

\* enqueue that does not request the postponed job.
Memory_Profiler_Events_enqueue_no_trigger(type, capture, klass, object, out) ==
  IF out.element # -1
  THEN /\ queues' = [queues EXCEPT ![available] =
                       [out.queue EXCEPT !.base =
                          Store(@, out.element,
                                WriteEvent(Load(@, out.element), type,
                                           capture, klass, object))]]
       /\ UNCHANGED triggered
       /\ enqueued' = Append(enqueued, Record(type, capture, klass, object))
       /\ last' = [op |-> "enqueue", outcome |-> "return", ret |-> 1]
  ELSE /\ queues' = [queues EXCEPT ![available] = out.queue]
       /\ UNCHANGED <<triggered, enqueued>>
       /\ last' = [op |-> "enqueue", outcome |-> "return", ret |-> 0]

\* enqueue that stores the pushed queue and the record in the queue that
\* has the processing role.
Memory_Profiler_Events_enqueue_processing(type, capture, klass, object, out) ==
  IF out.element # -1
  THEN /\ queues' = [queues EXCEPT ![processing] =
                       [out.queue EXCEPT !.base =
                          Store(@, out.element,
                                WriteEvent(Load(@, out.element), type,
                                           capture, klass, object))]]
       /\ triggered' = TRUE
       /\ enqueued' = Append(enqueued, Record(type, capture, klass, object))
       /\ last' = [op |-> "enqueue", outcome |-> "return", ret |-> 1]
  ELSE /\ queues' = [queues EXCEPT ![processing] = out.queue]
       /\ UNCHANGED <<triggered, enqueued>>
       /\ last' = [op |-> "enqueue", outcome |-> "return", ret |-> 0]

\* Memory_Profiler_Events_enqueue, on one outcome of the push.
Memory_Profiler_Events_enqueue(type, capture, klass, object, out) ==
  IF out.element # -1
  THEN /\ queues' = [queues EXCEPT ![available] =
                       [out.queue EXCEPT !.base =
                          Store(@, out.element,
                                WriteEvent(Load(@, out.element), type,
                                           capture, klass, object))]]
       /\ triggered' = TRUE
       /\ enqueued' = Append(enqueued, Record(type, capture, klass, object))
       /\ last' = [op |-> "enqueue", outcome |-> "return", ret |-> 1]
  ELSE /\ queues' = [queues EXCEPT ![available] = out.queue]
       /\ UNCHANGED <<triggered, enqueued>>
       /\ last' = [op |-> "enqueue", outcome |-> "return", ret |-> 0]

\* A trace point reports an event, at top level or from inside a handler.
\* No push traps here: 2 * EventSize is not 0 modulo 2^W.
Enqueue ==
  /\ Running
  /\ \E ev \in NextEvents :
       /\ \E out \in Queue_push(queues[available]) :
            /\ ~out.trap
            /\ Memory_Profiler_Events_enqueue(ev.type, "capture", "klass",
                                              ev.object, out)
       /\ Reported(ev)
  /\ UNCHANGED <<available, processing, processing_flag, pc, index, via,
                 batch, dispatched, warnings>>
  /\ UNCHANGED <<qvars, ivars>>

\* process_queue whose swap overwrites available before it is saved, so
\* that both roles name the same queue.
Memory_Profiler_Events_process_queue_alias(caller) ==
  IF processing_flag # 0
  THEN /\ last' = [op |-> caller, outcome |-> "nested", ret |-> 0]
       /\ UNCHANGED <<queues, available, processing, processing_flag, pc,
                      index, via, batch>>
  ELSE /\ processing_flag' = 1
       /\ available' = processing
       /\ processing' = processing
       /\ index' = 0
       /\ pc' = "loop"
       /\ via' = caller
       /\ batch' = [first |-> Len(dispatched),
                    count |-> queues[available].count]
       /\ last' = [op |-> caller, outcome |-> "swap", ret |-> 0]
       /\ UNCHANGED queues

\* process_queue without the test of the guard flag.
Memory_Profiler_Events_process_queue_unguarded(caller) ==
  /\ processing_flag' = 1
  /\ available' = processing
  /\ processing' = available
  /\ index' = 0
  /\ pc' = "loop"
  /\ via' = caller
  /\ batch' = [first |-> Len(dispatched), count |-> queues[available].count]
  /\ last' = [op |-> caller, outcome |-> "swap", ret |-> 0]
  /\ UNCHANGED queues

\* Memory_Profiler_Events_process_queue up to the loop (events.c:238-263):
\* the guard test, the flag and the swap.
Memory_Profiler_Events_process_queue(caller) ==
  IF processing_flag # 0
  THEN /\ last' = [op |-> caller, outcome |-> "nested", ret |-> 0]
       /\ UNCHANGED <<queues, available, processing, processing_flag, pc,
                      index, via, batch>>
  ELSE /\ processing_flag' = 1
       /\ available' = processing
       /\ processing' = available
       /\ index' = 0
       /\ pc' = "loop"
       /\ via' = caller
       /\ batch' = [first |-> Len(dispatched),
                    count |-> queues[available].count]
       /\ last' = [op |-> caller, outcome |-> "swap", ret |-> 0]
       /\ UNCHANGED queues

\* The host runs the postponed job at a safe point and clears the pending
\* request: at top level, or inside a handler that process_all is draining
\* (events.c:243; the host does not nest the job inside its own run).
PostponedJob ==
  /\ pc = "idle" \/ (pc = "handler" /\ via = "process_all")
  /\ triggered
  /\ triggered' = FALSE
  /\ Memory_Profiler_Events_process_queue("job")
  /\ UNCHANGED <<enqueued, dispatched, warnings, allocated, freed>>
  /\ UNCHANGED <<qvars, ivars>>

\* process_all without its own test of the guard flag.
Memory_Profiler_Events_process_all_unchecked ==
  Memory_Profiler_Events_process_queue("process_all")

\* Memory_Profiler_Events_process_all (events.c:216-225).
Memory_Profiler_Events_process_all ==
  IF processing_flag # 0
  THEN /\ pc' = "raising"
       /\ last' = [op |-> "process_all", outcome |-> "raise", ret |-> 0]
       /\ UNCHANGED <<queues, available, processing, processing_flag,
                      index, via, batch>>
  ELSE Memory_Profiler_Events_process_queue("process_all")

\* A capture is stopped: at top level, or by a handler.
ProcessAll ==
  /\ Running
  /\ Memory_Profiler_Events_process_all
  /\ UNCHANGED <<triggered, enqueued, dispatched, warnings, allocated, freed>>
  /\ UNCHANGED <<qvars, ivars>>

\* The loop test and the call of the handler under rb_protect
\* (events.c:266-276).
Dispatch ==
  /\ pc = "loop"
  /\ index < queues[processing].count
  /\ dispatched' =
       Append(dispatched, RecordOf(Queue_at(queues[processing], index)))
  /\ pc' = "handler"
  /\ last' = [op |-> "dispatch", outcome |-> "call", ret |-> index]
  /\ UNCHANGED <<queues, available, processing, processing_flag, triggered,
                 index, via, batch, enqueued, warnings, allocated, freed>>
  /\ UNCHANGED <<qvars, ivars>>

\* The end of a dispatch that, on a fault, steps over the next record too.
EventProcessed_skip(state) ==
  /\ warnings' = IF state # 0 THEN warnings + 1 ELSE warnings
  /\ queues' = [queues EXCEPT ![processing].base =
                  Store(@, index, ClearEvent(Load(@, index)))]
  /\ index' = IF state # 0 THEN index + 2 ELSE index + 1
  /\ pc' = "loop"
  /\ last' = [op |-> "processed", outcome |-> "next", ret |-> state]

\* The end of a dispatch that leaves the loop body early on a fault, before
\* the slot is reset.
EventProcessed_continue(state) ==
  /\ warnings' = IF state # 0 THEN warnings + 1 ELSE warnings
  /\ queues' = IF state # 0 THEN queues
                ELSE [queues EXCEPT ![processing].base =
                        Store(@, index, ClearEvent(Load(@, index)))]
  /\ index' = index + 1
  /\ pc' = "loop"
  /\ last' = [op |-> "processed", outcome |-> "next", ret |-> state]

\* rb_protect returns with state; the warning, the reset of the slot and the
\* step of the loop (events.c:278-294).
EventProcessed(state) ==
  /\ warnings' = IF state # 0 THEN warnings + 1 ELSE warnings
  /\ queues' = [queues EXCEPT ![processing].base =
                  Store(@, index, ClearEvent(Load(@, index)))]
  /\ index' = index + 1
  /\ pc' = "loop"
  /\ last' = [op |-> "processed", outcome |-> "next", ret |-> state]

\* The end of a handler whose call is not protected: the exception raised
\* by process_all leaves the drain.
HandlerEnds_unprotected ==
  /\ pc \in {"handler", "raising"}
  /\ IF pc = "raising"
     THEN /\ pc' = "idle"
          /\ last' = [op |-> "process_all", outcome |-> "raise", ret |-> 1]
          /\ UNCHANGED <<queues, index, warnings>>
     ELSE \E state \in {0, 1} : EventProcessed(state)
  /\ UNCHANGED <<available, processing, processing_flag, triggered, via,
                 batch, enqueued, dispatched, allocated, freed>>
  /\ UNCHANGED <<qvars, ivars>>

\* The handler returns, or an exception leaves it.
HandlerEnds ==
  /\ pc \in {"handler", "raising"}
  /\ \E state \in {0, 1} :
       /\ pc = "raising" => state = 1
       /\ EventProcessed(state)
  /\ UNCHANGED <<available, processing, processing_flag, triggered, via,
                 batch, enqueued, dispatched, allocated, freed>>
  /\ UNCHANGED <<qvars, ivars>>

\* An end of the loop that releases the guard without Queue_clear.
DrainEnds_no_clear ==
  /\ pc = "loop"
  /\ ~(index < queues[processing].count)
  /\ processing_flag' = 0
  /\ pc' = "idle"
  /\ via' = "none"
  /\ batch' = [first |-> 0, count |-> 0]
  /\ last' = [op |-> via, outcome |-> "return", ret |-> 0]
  /\ UNCHANGED <<queues, available, processing, triggered, index, enqueued,
                 dispatched, warnings, allocated, freed>>
  /\ UNCHANGED <<qvars, ivars>>

\* An end of the loop that does not wait for the index to reach the count.
DrainEnds_early ==
  /\ pc = "loop"
  /\ queues' = [queues EXCEPT ![processing] = Queue_clear(@)]
  /\ processing_flag' = 0
  /\ pc' = "idle"
  /\ via' = "none"
  /\ batch' = [first |-> 0, count |-> 0]
  /\ last' = [op |-> via, outcome |-> "return", ret |-> 0]
  /\ UNCHANGED <<available, processing, triggered, index, enqueued,
                 dispatched, warnings, allocated, freed>>
  /\ UNCHANGED <<qvars, ivars>>

\* The end of the loop (events.c:296-308): the clear and the release of the
\* guard; process_queue returns to its caller.
DrainEnds ==
  /\ pc = "loop"
  /\ ~(index < queues[processing].count)
  /\ queues' = [queues EXCEPT ![processing] = Queue_clear(@)]
  /\ processing_flag' = 0
  /\ pc' = "idle"
  /\ via' = "none"
  /\ batch' = [first |-> 0, count |-> 0]
  /\ last' = [op |-> via, outcome |-> "return", ret |-> 0]
  /\ UNCHANGED <<available, processing, triggered, index, enqueued,
                 dispatched, warnings, allocated, freed>>
  /\ UNCHANGED <<qvars, ivars>>

\* The stand-alone queue and the resize under test, not in use.
QueueCounters ==
  /\ pushed = <<>>
  /\ serial = 0
  /\ clears = 0
  /\ fails = 0

ResizeIdle ==
  /\ resize_in = [queue |-> Queue_initialize(EventSize), required |-> 0,
                  done |-> FALSE]
  /\ resize_out = [ret |-> 0, trap |-> FALSE, bytes |-> 0,
                   queue |-> Queue_initialize(EventSize)]

QueueIdle ==
  /\ queue = Queue_initialize(EventSize)
  /\ QueueCounters
  /\ ResizeIdle

\* No store: the value of the statics before the first use (events.c:84-85).
NoStore == 0

\* events.c:75
POSTPONED_JOB_HANDLE_INVALID == -1

\* The accessor after the first use has constructed and published store 1.
InstanceReady ==
  /\ instance = 1
  /\ events = 1
  /\ stores = 1
  /\ registered = 1
  /\ pinned = {1}
  /\ calls = 0
  /\ result = [op |-> "none", outcome |-> "return", ret |-> 1]

\* The event store after construction, nothing reported yet.
EventsInit ==
  /\ Memory_Profiler_Events_new
  /\ pc = "idle"
  /\ index = 0
  /\ via = "none"
  /\ batch = [first |-> 0, count |-> 0]
  /\ enqueued = <<>>
  /\ dispatched = <<>>
  /\ warnings = 0
  /\ allocated = 0
  /\ freed = {}
  /\ last = [op |-> "new", outcome |-> "return", ret |-> 0]

Init ==
  /\ EventsInit
  /\ QueueIdle
  /\ InstanceReady

Next ==
  \/ Enqueue
  \/ PostponedJob
  \/ ProcessAll
  \/ Dispatch
  \/ HandlerEnds
  \/ DrainEnds

Spec == Init /\ [][Next]_vars

\* The host runs a requested job at some later safe point, every handler
\* returns or faults, and the drain loop runs on. Producers and callers of
\* process_all are under no obligation.
SpecFair ==
  /\ Spec
  /\ SF_vars(PostponedJob)
  /\ WF_vars(Dispatch)
  /\ WF_vars(HandlerEnds)
  /\ WF_vars(DrainEnds)

\* Every handler returns or faults and the drain loop runs on; the host is
\* under no obligation to run a requested job.
SpecDrain ==
  /\ Spec
  /\ WF_vars(Dispatch)
  /\ WF_vars(HandlerEnds)
  /\ WF_vars(DrainEnds)

----------------------------------------------------------------------------
\* The queue of queue.h on its own: pushes that write a record into the
\* reserved slot, and clears.

\* The element sizes the stand-alone queue is initialized with.
ElementSizes == {1, EventSize}

\* The record written by the push after `n` successful ones.
Pushed(n) == Record(NEWOBJ, "capture", "klass", n + 1)

\* The owner clears the queue when it is nearly empty, full, or has just
\* grown.
ClearPoints ==
  {n \in 1..MaxPush : n % MEMORY_PROFILER_QUEUE_DEFAULT_COUNT \in {0, 1}}

InitQueue ==
  /\ EventsInit
  /\ queue \in {Queue_initialize(element_size) :
                  element_size \in ElementSizes}
  /\ QueueCounters
  /\ ResizeIdle
  /\ InstanceReady

\* A push and the write of the record through the returned pointer. No
\* push traps for the element sizes of ElementSizes.
QueuePush ==
  /\ serial < MaxPush
  /\ \E out \in Queue_push(queue) :
       /\ ~out.trap
       /\ IF out.element # -1
          THEN /\ queue' = [out.queue EXCEPT !.base =
                              Store(@, out.element,
                                    WriteEvent(Load(@, out.element), NEWOBJ,
                                               "capture", "klass",
                                               serial + 1))]
               /\ pushed' = Append(pushed, Pushed(serial))
               /\ serial' = serial + 1
               /\ fails' = fails
          ELSE /\ fails < MaxFail
               /\ queue' = out.queue
               /\ fails' = fails + 1
               /\ UNCHANGED <<pushed, serial>>
  /\ UNCHANGED <<clears, resize_in, resize_out>>
  /\ UNCHANGED <<evars, ivars>>

QueueClear ==
  /\ clears < MaxClear
  /\ queue.count \in ClearPoints
  /\ queue' = Queue_clear(queue)
  /\ pushed' = <<>>
  /\ clears' = clears + 1
  /\ UNCHANGED <<serial, fails, resize_in, resize_out>>
  /\ UNCHANGED <<evars, ivars>>

NextQueue ==
  \/ QueuePush
  \/ QueueClear

SpecQueue == InitQueue /\ [][NextQueue]_vars

----------------------------------------------------------------------------
\* Queue_resize on its own, applied once to a queue and a required capacity.

\* Sizes at and next to the powers of two, and the small ones.
SizeSamples ==
  (0..8) \cup {EventSize, SIZE_MAX}
  \cup UNION {{2 ^ k - 1, 2 ^ k, 2 ^ k + 1} : k \in 3..(W - 1)}

\* A queue that holds `capacity` elements of `element_size` bytes.
QueueOf(capacity, element_size) ==
  [base |-> [slots |-> capacity, mem |-> <<>>], capacity |-> capacity,
   count |-> 0, element_size |-> element_size]

InitResize ==
  /\ EventsInit
  /\ queue = Queue_initialize(EventSize)
  /\ QueueCounters
  /\ \E element_size \in SizeSamples \ {0} :
     \E capacity \in {c \in SizeSamples : c * element_size <= SIZE_MAX} :
     \E required \in SizeSamples :
       resize_in = [queue |-> QueueOf(capacity, element_size),
                    required |-> required, done |-> FALSE]
  /\ resize_out = [ret |-> 0, trap |-> FALSE, bytes |-> 0,
                   queue |-> Queue_initialize(EventSize)]
  /\ InstanceReady

Resize ==
  /\ ~resize_in.done
  /\ resize_out' \in Queue_resize(resize_in.queue, resize_in.required)
  /\ resize_in' = [resize_in EXCEPT !.done = TRUE]
  /\ UNCHANGED <<queue, pushed, serial, clears, fails>>
  /\ UNCHANGED <<evars, ivars>>

NextResize == Resize

SpecResize == InitResize /\ [][NextResize]_vars

----------------------------------------------------------------------------
\* The accessor Memory_Profiler_Events_instance on its own, from before the
\* first use.

\* What rb_postponed_job_preregister may return: no handle, or the handle
\* of the callback.
Handles == {POSTPONED_JOB_HANDLE_INVALID, 0}

\* The callers of the accessor (events.c:188, events.c:217).
Callers == {"enqueue", "process_all"}

\* The accessor without the test of the static.
Memory_Profiler_Events_instance_always(caller, handle) ==
  /\ stores' = stores + 1
  /\ IF handle = POSTPONED_JOB_HANDLE_INVALID
     THEN /\ result' = [op |-> caller, outcome |-> "raise", ret |-> NoStore]
          /\ UNCHANGED <<instance, events, registered, pinned>>
     ELSE /\ registered' = registered + 1
          /\ instance' = stores + 1
          /\ pinned' = pinned \cup {stores + 1}
          /\ events' = stores + 1
          /\ result' = [op |-> caller, outcome |-> "return",
                        ret |-> stores + 1]

\* Memory_Profiler_Events_instance (events.c:83-97) with the constructor
\* Memory_Profiler_Events_new (events.c:51-80) it calls on the first use:
\* the store is made, the callback registered; without a handle the
\* constructor raises before the static is assigned.
Memory_Profiler_Events_instance(caller, handle) ==
  IF instance = NoStore
  THEN /\ stores' = stores + 1
       /\ IF handle = POSTPONED_JOB_HANDLE_INVALID
          THEN /\ result' = [op |-> caller, outcome |-> "raise",
                             ret |-> NoStore]
               /\ UNCHANGED <<instance, events, registered, pinned>>
          ELSE /\ registered' = registered + 1
               /\ instance' = stores + 1
               /\ pinned' = pinned \cup {stores + 1}
               /\ events' = stores + 1
               /\ result' = [op |-> caller, outcome |-> "return",
                             ret |-> stores + 1]
  ELSE /\ result' = [op |-> caller, outcome |-> "return", ret |-> events]
       /\ UNCHANGED <<instance, events, stores, registered, pinned>>

InitInstance ==
  /\ EventsInit
  /\ QueueIdle
  /\ instance = NoStore
  /\ events = NoStore
  /\ stores = 0
  /\ registered = 0
  /\ pinned = {}
  /\ calls = 0
  /\ result = [op |-> "none", outcome |-> "return", ret |-> NoStore]

\* enqueue or process_all asks for the store.
Instance ==
  /\ calls < MaxCalls
  /\ calls' = calls + 1
  /\ \E caller \in Callers, handle \in Handles :
       Memory_Profiler_Events_instance(caller, handle)
  /\ UNCHANGED <<evars, qvars>>

NextInstance == Instance

SpecInstance == InitInstance /\ [][NextInstance]_vars

----------------------------------------------------------------------------
\* Helpers of the properties.

\* The records of q from slot `from` to its count, in slot order.
QueueRecords(q, from) ==
  [k \in 1..(q.count - from) |-> RecordOf(Queue_at(q, from + k - 1))]

\* The first slot of the processing queue not yet handed to the handler.
Undispatched ==
  IF pc = "loop" THEN index
  ELSE IF pc \in {"handler", "raising"} THEN index + 1
  ELSE 0

\* The records enqueued and not yet handed to the handler, oldest first.
Pending ==
  QueueRecords(queues[processing], Undispatched)
    \o QueueRecords(queues[available], 0)

\* Every record enqueued is dispatched or pending, in insertion order.
InOrder == enqueued = dispatched \o Pending

\* The events reported whose enqueue failed.
Dropped == allocated + Cardinality(freed) - Len(enqueued)

Draining == processing_flag # 0

\* The references a mark walk of q visits (events.c:100-114).
Memory_Profiler_Events_mark_queue(q, skip_none) ==
  UNION {LET event == Queue_at(q, i) IN
         IF skip_none /\ event.type = NONE THEN {}
         ELSE ({event.capture, event.klass}
               \cup (IF event.type = NEWOBJ THEN {event.object} ELSE {}))
              \ {Qnil} :
         i \in 0..(q.count - 1)}

\* The fields a mark walk of q hands to rb_gc_mark_movable, as pairs of
\* slot index and field (events.c:100-114).
Memory_Profiler_Events_mark_fields(q, skip_none) ==
  UNION {LET event == Queue_at(q, i) IN
         IF skip_none /\ event.type = NONE THEN {}
         ELSE {<<i, "capture">>, <<i, "klass">>}
              \cup (IF event.type = NEWOBJ THEN {<<i, "object">>} ELSE {}) :
         i \in 0..(q.count - 1)}

\* A compact walk that takes no notice of skip_none.
Memory_Profiler_Events_compact_queue_all(q, skip_none) ==
  UNION {LET event == Queue_at(q, i) IN
         {<<i, "capture">>, <<i, "klass">>}
         \cup (IF event.type = NEWOBJ THEN {<<i, "object">>} ELSE {}) :
         i \in 0..(q.count - 1)}

\* The fields a compact walk of q updates with rb_gc_location, as pairs of
\* slot index and field (events.c:128-142).
Memory_Profiler_Events_compact_queue(q, skip_none) ==
  UNION {LET event == Queue_at(q, i) IN
         IF skip_none /\ event.type = NONE THEN {}
         ELSE {<<i, "capture">>, <<i, "klass">>}
              \cup (IF event.type = NEWOBJ THEN {<<i, "object">>} ELSE {}) :
         i \in 0..(q.count - 1)}

\* The mark callback: what it visits in each role (events.c:117-125).
Memory_Profiler_Events_mark ==
  [available |->
     Memory_Profiler_Events_mark_fields(queues[available], FALSE),
   processing |->
     Memory_Profiler_Events_mark_fields(queues[processing], TRUE)]

\* The compact callback: what it visits in each role (events.c:145-153).
Memory_Profiler_Events_compact ==
  [available |->
     Memory_Profiler_Events_compact_queue(queues[available], FALSE),
   processing |->
     Memory_Profiler_Events_compact_queue(queues[processing], TRUE)]

\* The slots among the visited fields.
SlotsOf(fields) == {f[1] : f \in fields}

\* The first slot of the processing queue whose dispatch has not finished.
Unfinished == IF pc \in {"loop", "handler", "raising"} THEN index ELSE 0

\* The number of records whose dispatch has finished.
Finished ==
  Len(dispatched) - (IF pc \in {"handler", "raising"} THEN 1 ELSE 0)

\* The set of the elements of a sequence.
Range(seq) == {seq[k] : k \in DOMAIN seq}

\* The smallest capacity of the form 128 * 2^k that is at least n.
SmallestCapacity(n) ==
  LET caps == {MEMORY_PROFILER_QUEUE_DEFAULT_COUNT * (2 ^ k) : k \in 0..W}
  IN CHOOSE c \in caps : c >= n /\ \A d \in caps : (d >= n) => (c <= d)

\* The slot holds the sentinel and no reference.
IsCleared(slot) ==
  /\ slot.type = NONE
  /\ slot.capture = Qnil
  /\ slot.klass = Qnil
  /\ slot.object = Qnil


----------------------------------------------------------------------------
\* C1: the records handed to process_event are always a prefix of the
\* records successfully enqueued: none is dispatched twice, none that was not
\* enqueued, and an object's NEWOBJ record is dispatched before its FREEOBJ
\* record.
C1_DispatchedPrefix ==
  /\ Len(dispatched) <= Len(enqueued)
  /\ \A k \in 1..Len(dispatched) : dispatched[k] = enqueued[k]
  /\ \A j, k \in 1..Len(dispatched) :
       /\ (j # k) => (dispatched[j] # dispatched[k])
       /\ (/\ dispatched[j].type = NEWOBJ
           /\ dispatched[k].type = FREEOBJ
           /\ dispatched[j].object = dispatched[k].object) => (j < k)

\* An object's FREEOBJ record is being dispatched as the first record of a
\* batch, after its NEWOBJ record was dispatched from the other buffer.
C1_Witness ==
  /\ pc = "handler"
  /\ index = 0
  /\ Len(dispatched) = 2
  /\ dispatched[1] = Record(NEWOBJ, "capture", "klass", 1)
  /\ dispatched[2] = Record(FREEOBJ, "capture", "klass", 1)

\* C2: every record successfully enqueued is eventually dispatched, when the
\* host runs every requested job and every handler ends.
C2_EventuallyDispatched ==
  \A n \in 1..(2 * MaxObjects) :
    (Len(enqueued) >= n) ~> (Len(dispatched) >= n)

\* C3: when process_all, called while idle, returns, both queues are empty.
C3_FlushLeavesNothing ==
  (last.op = "process_all" /\ last.outcome = "return") =>
    /\ queues[available].count = 0
    /\ queues[processing].count = 0

\* The step in which rb_protect reports a fault of the handler.
C4_FaultStep ==
  (pc \in {"handler", "raising"} /\ last'.op = "processed" /\ last'.ret # 0) =>
    /\ warnings' = warnings + 1
    /\ IsCleared(Queue_at(queues'[processing], index))
    /\ queues'[processing].count = queues[processing].count
    /\ \A k \in 0..(queues[processing].count - 1) :
         (k # index) =>
           Queue_at(queues'[processing], k) = Queue_at(queues[processing], k)
    /\ queues'[available] = queues[available]
    /\ index' = index + 1
    /\ pc' = "loop"
    /\ processing_flag' = 1
    /\ UNCHANGED <<available, processing, enqueued, dispatched, triggered>>

\* C4: a fault of the handler is contained: it is reported as a warning, the
\* slot of the record is reset, nothing else of the queues changes, nothing
\* is dispatched again, and the drain goes on with the next record of the
\* batch, whose records stay in order.
C4_FaultContained == [][C4_FaultStep]_vars /\ []InOrder

\* The third record of a batch is with the handler after the handler of an
\* earlier record of the batch faulted.
C4_Witness ==
  /\ pc = "handler"
  /\ index = 2
  /\ queues[processing].count = 3
  /\ Len(dispatched) = 3
  /\ warnings = 1

\* The step in which the host runs the postponed job inside a handler.
C5_NestedStep ==
  (Draining /\ pc = "handler" /\ last'.op = "job") =>
    /\ last'.outcome = "nested"
    /\ UNCHANGED <<queues, available, processing, processing_flag, pc, index,
                   via, enqueued, dispatched, warnings>>

\* C5: the postponed job run while a drain is in progress changes nothing:
\* no swap, no dispatch, both queues and the guard flag as they were, and the
\* records of the batch stay pending in order for the outer drain.
C5_NestedJobNoOp == [][C5_NestedStep]_vars /\ []InOrder

\* The job ran inside the handler of the first of two records of a batch.
C5_Witness ==
  /\ last = [op |-> "job", outcome |-> "nested", ret |-> 0]
  /\ pc = "handler"
  /\ index = 0
  /\ queues[processing].count >= 2

\* The step in which process_all is called.
C6_FlushStep ==
  (Running /\ last'.op = "process_all") =>
    IF Draining
    THEN /\ last'.outcome = "raise"
         /\ pc' = "raising"
         /\ UNCHANGED <<queues, available, processing, processing_flag,
                        index, enqueued, dispatched, triggered, warnings>>
    ELSE /\ last'.outcome # "raise"
         /\ pc' # "raising"

\* C6: process_all called during a drain raises and changes nothing else;
\* called while idle it does not raise.
C6_RecursiveFlushRaises == [][C6_FlushStep]_vars

\* process_all has raised inside a handler while records are pending.
C6_Witness ==
  /\ pc = "raising"
  /\ last = [op |-> "process_all", outcome |-> "raise", ret |-> 0]
  /\ Len(Pending) >= 1

\* C7: when a drain completes, the processing queue has count 0, every slot
\* written in it is reset with its references cleared, and a mark walk of
\* it visits nothing, before the count is zeroed as well as after.
C7_PostDrainClean ==
  /\ (last.op \in {"job", "process_all"} /\ last.outcome = "return") =>
       /\ queues[processing].count = 0
       /\ \A k \in DOMAIN queues[processing].base.mem :
            IsCleared(Queue_at(queues[processing], k))
       /\ Memory_Profiler_Events_mark_queue(queues[processing], TRUE) = {}
  /\ (pc = "loop" /\ index = queues[processing].count) =>
       /\ \A k \in 0..(index - 1) : IsCleared(Queue_at(queues[processing], k))
       /\ Memory_Profiler_Events_mark_queue(queues[processing], TRUE) = {}

\* A drain of two records or more has just completed.
C7_Witness ==
  /\ last.op \in {"job", "process_all"}
  /\ last.outcome = "return"
  /\ pc = "idle"
  /\ Cardinality(DOMAIN queues[processing].base.mem) >= 2
  /\ Len(dispatched) >= 2

\* The step in which enqueue returns 0.
C8_FailedStep ==
  (Running /\ last'.op = "enqueue" /\ last'.ret = 0) =>
    /\ queues[available].count = queues[available].capacity
    /\ UNCHANGED <<queues, available, processing, processing_flag, triggered,
                   pc, index, via, enqueued, dispatched, warnings>>

C10_GrowthCorrect ==
  (clears = 0 /\ Len(pushed) >= 1) =>
    /\ queue.count = Len(pushed)
    /\ queue.capacity = SmallestCapacity(Len(pushed))
    /\ queue.capacity >= Len(pushed)
    /\ queue.base.slots >= queue.capacity
    /\ \A i \in 0..(Len(pushed) - 1) :
         RecordOf(Queue_at(queue, i)) = pushed[i + 1]

\* The queue has grown twice and holds the records of all its pushes.
C10_Witness ==
  /\ clears = 0
  /\ Len(pushed) = 2 * MEMORY_PROFILER_QUEUE_DEFAULT_COUNT + 1
  /\ queue.capacity = 4 * MEMORY_PROFILER_QUEUE_DEFAULT_COUNT
  /\ RecordOf(Queue_at(queue, 0)) = Pushed(0)

\* The step in which a role changes hands.
C11_RoleStep ==
  (available' # available \/ processing' # processing) =>
    /\ processing_flag = 0
    /\ processing_flag' = 1
    /\ pc \in {"idle", "handler"}
    /\ pc' = "loop"
    /\ last'.outcome = "swap"
    /\ available' = processing
    /\ processing' = available
    /\ UNCHANGED queues

\* C11: available and processing always name the two distinct queues of the
\* store, one each, and the roles change only by the swap at the start of a
\* drain that found the guard flag clear.
C11_RolesDistinct ==
  /\ [](/\ DOMAIN queues = {0, 1}
        /\ available \in {0, 1}
        /\ processing \in {0, 1}
        /\ available # processing)
  /\ [][C11_RoleStep]_vars

\* The roles have been swapped twice and the second batch is being drained.
C11_Witness ==
  /\ available = 0
  /\ processing = 1
  /\ pc = "handler"
  /\ Len(dispatched) >= 2
  /\ queues[available].capacity > 0
  /\ queues[processing].capacity > 0

\* A step from the swap of a drain up to, not including, its end.
C12_WindowStep ==
  (Draining /\ processing_flag' # 0) =>
    /\ UNCHANGED <<available, processing>>
    /\ queues'[processing].count = queues[processing].count
    /\ queues'[processing].capacity = queues[processing].capacity
    /\ queues'[processing].base.slots = queues[processing].base.slots
    /\ DOMAIN queues'[processing].base.mem
         = DOMAIN queues[processing].base.mem
    /\ (pc \in {"handler", "raising"} /\ pc' \in {"handler", "raising"}) =>
         queues'[processing] = queues[processing]
    /\ (last'.op = "enqueue") =>
         /\ queues'[processing] = queues[processing]
         /\ (last'.ret = 1) =>
              /\ queues'[available].count = queues[available].count + 1
              /\ enqueued' =
                   Append(enqueued,
                          RecordOf(Queue_at(queues'[available],
                                            queues[available].count)))
              /\ \A k \in 0..(queues[available].count - 1) :
                   Queue_at(queues'[available], k)
                     = Queue_at(queues[available], k)
    /\ (last'.op = "dispatch") =>
         /\ UNCHANGED queues
         /\ dispatched' =
              Append(dispatched,
                     RecordOf(Queue_at(queues[processing], index)))
    /\ (last'.op = "processed") =>
         /\ queues'[available] = queues[available]
         /\ \A k \in 0..(queues[processing].count - 1) :
              (k # index) =>
                Queue_at(queues'[processing], k)
                  = Queue_at(queues[processing], k)

\* C12: from the swap until the drain ends, the drain reads and resets only
\* slots of the processing queue and every enqueue appends only to the
\* available queue; the count, the capacity and the block of the processing
\* queue stay as they are, and across a handler call the processing queue
\* does not change at all, so the slot the drain holds stays valid.
C12_BufferIsolation == [][C12_WindowStep]_vars

\* A handler of the first drain has enqueued a record: the available queue
\* got its first block and holds that record, the batch is as it was.
C12_Witness ==
  /\ pc = "handler"
  /\ index = 0
  /\ last = [op |-> "enqueue", outcome |-> "return", ret |-> 1]
  /\ queues[available].count = 1
  /\ queues[available].capacity = MEMORY_PROFILER_QUEUE_DEFAULT_COUNT
  /\ queues[processing].count >= 2
  /\ Len(dispatched) = 1

\* C13: in every state the mark walk and the compact walk visit the same
\* fields of the same slots: every slot of the available queue below its
\* count and the slots of the processing queue below its count that do not
\* hold the sentinel. These are exactly the slots of the records enqueued
\* whose dispatch has not finished, in order; no slot of a record whose
\* dispatch has finished is visited, and every visited field holds a
\* reference that an enqueue stored.
C13_CollectorSeesPending ==
  LET marked == Memory_Profiler_Events_mark
      a == queues[available]
      p == queues[processing]
  IN /\ marked = Memory_Profiler_Events_compact
     /\ SlotsOf(marked.available) = 0..(a.count - 1)
     /\ SlotsOf(marked.processing)
          = {k \in 0..(p.count - 1) : Queue_at(p, k).type # NONE}
     /\ SlotsOf(marked.processing) = Unfinished..(p.count - 1)
     /\ QueueRecords(p, Unfinished) \o QueueRecords(a, 0)
          = SubSeq(enqueued, Finished + 1, Len(enqueued))
     /\ \A q \in {a, p} :
        \A f \in (IF q = a THEN marked.available ELSE marked.processing) :
          LET value == Queue_at(q, f[1])[f[2]] IN
          IF f[2] = "object" THEN value \in 1..allocated
          ELSE value \in {"capture", "klass"}

\* The second record of a batch is with its handler, which has enqueued a
\* record: the walks skip the reset first slot and visit the other two.
C13_Witness ==
  /\ pc = "handler"
  /\ index = 1
  /\ queues[processing].count = 2
  /\ Queue_at(queues[processing], 0).type = NONE
  /\ queues[available].count = 1
  /\ SlotsOf(Memory_Profiler_Events_mark.processing) = {1}
  /\ SlotsOf(Memory_Profiler_Events_compact.available) = {0}

\* The step in which enqueue returns 1.
C14_EnqueuedStep ==
  (Running /\ last'.op = "enqueue" /\ last'.ret = 1) =>
    LET tail == queues[available].count IN
    /\ queues'[available].count = tail + 1
    /\ Len(enqueued') = Len(enqueued) + 1
    /\ RecordOf(Queue_at(queues'[available], tail))
         = enqueued'[Len(enqueued')]
    /\ \A k \in 0..(tail - 1) :
         Queue_at(queues'[available], k) = Queue_at(queues[available], k)
    /\ triggered'
    /\ queues'[processing] = queues[processing]
    /\ UNCHANGED <<available, processing, processing_flag, pc, index, via,
                   dispatched, warnings>>

\* C14: a successful enqueue, while idle or during a drain, writes one new
\* tail record into the available queue, whose count grows by one, and
\* requests the postponed job; it calls no handler, swaps nothing, and
\* leaves the guard flag, the loop and the processing queue as they were.
C14_EnqueueDefers == [][C14_EnqueuedStep]_vars

\* An enqueue has succeeded at top level after an earlier drain: the record
\* waits in the available queue and the job is requested.
C14_Witness ==
  /\ pc = "idle"
  /\ last = [op |-> "enqueue", outcome |-> "return", ret |-> 1]
  /\ Len(dispatched) >= 1
  /\ Len(enqueued) = Len(dispatched) + 1
  /\ queues[available].count = 1
  /\ queues[processing].count = 0
  /\ triggered

\* A step of the stand-alone queue: the capacity does not shrink, a failed
\* push changes nothing, a clear zeroes the count and nothing else.
C15_QueueStep ==
  /\ queue'.capacity >= queue.capacity
  /\ queue'.element_size = queue.element_size
  /\ (fails' # fails) => (queue' = queue)
  /\ (serial' # serial) =>
       /\ queue'.count = queue.count + 1
       /\ \A k \in 0..(queue.count - 1) :
            Queue_at(queue', k) = Queue_at(queue, k)
  /\ (clears' # clears) =>
       /\ queue'.count = 0
       /\ queue'.capacity = queue.capacity
       /\ queue'.base = queue.base

\* C15: after any sequence of pushes, successful or failed, and clears on
\* an initialized queue, count is at most capacity, capacity is 0 or
\* 128 * 2^k and covered by the storage, and capacity never decreases; a
\* clear sets count to 0 and leaves capacity and storage as they were.
C15_QueueInvariant ==
  /\ [](/\ queue.count <= queue.capacity
        /\ queue.capacity \in
             {0} \cup {MEMORY_PROFILER_QUEUE_DEFAULT_COUNT * (2 ^ k) :
                         k \in 0..W}
        /\ queue.base.slots >= queue.capacity
        /\ (queue.capacity = 0) <=> (queue.base = NULL)
        /\ \A k \in 0..(queue.count - 1) : k \in DOMAIN queue.base.mem)
  /\ [][C15_QueueStep]_vars

\* The queue has grown once, was cleared when it held 129 records, and has
\* been pushed onto again; one push failed on the way.
C15_Witness ==
  /\ clears = 1
  /\ fails = 1
  /\ queue.count = 1
  /\ queue.capacity = 2 * MEMORY_PROFILER_QUEUE_DEFAULT_COUNT
  /\ serial = MEMORY_PROFILER_QUEUE_DEFAULT_COUNT + 2

\* A step that changes the guard flag: it is set by the swap of a drain that
\* found it clear, and cleared at the end of that drain, after as many
\* dispatches as the queue held at the swap.
C16_GuardStep ==
  /\ (processing_flag = 0 /\ processing_flag' # 0) =>
       /\ pc = "idle"
       /\ pc' = "loop"
       /\ index' = 0
       /\ last'.outcome = "swap"
       /\ batch'.count = queues'[processing'].count
  /\ (processing_flag # 0 /\ processing_flag' = 0) =>
       /\ pc = "loop"
       /\ pc' = "idle"
       /\ last'.outcome = "return"
       /\ index = batch.count
       /\ Len(dispatched') = batch.first + batch.count
       /\ queues'[processing'].count = 0

\* C16: the guard flag is set only by the swap of a drain that found it
\* clear and cleared only at the end of that drain; while it is set the
\* drain is inside its loop over a batch of unchanged size; and, every
\* handler ending, every drain ends and leaves the store idle after exactly
\* as many dispatches as the queue held at the swap, whatever the handlers
\* enqueue and however many of them fault.
C16_DrainTerminates ==
  /\ [][C16_GuardStep]_vars
  /\ [](/\ processing_flag \in {0, 1}
        /\ Draining <=> pc \in {"loop", "handler", "raising"}
        /\ Draining =>
             /\ queues[processing].count = batch.count
             /\ index <= batch.count
             /\ Len(dispatched) = batch.first + Undispatched)
  /\ Draining ~> ~Draining

\* A drain of three records is at its end: one handler faulted, a record
\* enqueued by a handler waits in the other queue.
C16_Witness ==
  /\ pc = "loop"
  /\ index = 3
  /\ batch.count = 3
  /\ warnings >= 1
  /\ queues[available].count = 1
  /\ Len(dispatched) = batch.first + 3

\* A call of the accessor: once a store is published the statics, the
\* stores, the registration and the pin stay as they are and the call
\* returns that store; a call that raises publishes nothing.
C17_InstanceStep ==
  /\ (instance # NoStore) =>
       /\ UNCHANGED <<instance, events, stores, registered, pinned>>
       /\ result'.outcome = "return"
       /\ result'.ret = instance
  /\ (result'.outcome = "raise") =>
       /\ instance = NoStore
       /\ instance' = NoStore
       /\ events' = NoStore
       /\ UNCHANGED <<registered, pinned>>
  /\ (instance = NoStore /\ instance' # NoStore) =>
       /\ registered' = 1
       /\ stores' = stores + 1
       /\ instance' = stores'
       /\ result' = [op |-> result'.op, outcome |-> "return",
                     ret |-> instance']

\* C17: the accessor publishes at most one store, constructed and
\* registered by the first call whose registration gives a handle, and
\* pins it; every later call returns that same store and constructs and
\* registers nothing; a call whose registration fails raises and leaves no
\* store published.
C17_SingleRegistration ==
  /\ [](/\ registered \in {0, 1}
        /\ events = instance
        /\ (instance # NoStore) <=> (registered = 1)
        /\ pinned = (IF instance = NoStore THEN {} ELSE {instance})
        /\ (instance # NoStore) => (instance = stores)
        /\ (calls > 0 /\ result.outcome = "return") =>
             (result.ret = instance /\ instance # NoStore)
        /\ (result.outcome = "raise") =>
             (instance = NoStore /\ result.ret = NoStore))
  /\ [][C17_InstanceStep]_vars

\* Two first uses failed to register, the third published store 3, and two
\* later calls returned it.
C17_Witness ==
  /\ instance = 3
  /\ stores = 3
  /\ registered = 1
  /\ calls = 5
  /\ result.outcome = "return"
  /\ result.ret = 3

\* The swap: the queue that takes the available role is empty, the records
\* pending before are the batch, in the same order.
C18_SwapStep ==
  (last'.outcome = "swap") =>
    /\ queues[processing].count = 0
    /\ queues'[available'].count = 0
    /\ QueueRecords(queues'[processing'], 0) = Pending
    /\ Pending' = Pending

\* C18: whenever the guard flag is clear the processing queue has count 0;
\* so at every swap the queue that becomes available is empty, and the
\* swap overwrites, hides or reorders no pending record.
C18_IdleProcessingEmpty ==
  /\ [](~Draining =>
          /\ pc = "idle"
          /\ queues[processing].count = 0
          /\ Pending = QueueRecords(queues[available], 0))
  /\ [][C18_SwapStep]_vars

\* The second swap has just been made: the queue drained before is the
\* available one again, empty, and the batch holds the pending records.
C18_Witness ==
  /\ last.outcome = "swap"
  /\ pc = "loop"
  /\ index = 0
  /\ Len(dispatched) >= 1
  /\ available = 0
  /\ queues[available].count = 0
  /\ queues[available].capacity = MEMORY_PROFILER_QUEUE_DEFAULT_COUNT
  /\ queues[processing].count >= 2

\* C19: the number of successful enqueues is the number of records
\* dispatched plus the count of the available queue plus the number of
\* slots of the processing queue not yet dispatched; every record enqueued
\* is either dispatched or waiting in one slot, none in both and none
\* twice, across swaps, clears, nested drain attempts and handler faults.
C19_Conservation ==
  LET waiting == queues[processing].count - Undispatched IN
  /\ Len(enqueued)
       = Len(dispatched) + queues[available].count
           + (IF Draining THEN waiting ELSE 0)
  /\ Draining => waiting >= 0
  /\ ~Draining => queues[processing].count = 0
  /\ Cardinality(Range(enqueued)) = Len(enqueued)
  /\ Cardinality(Range(dispatched)) = Len(dispatched)
  /\ Cardinality(Range(Pending)) = Len(Pending)
  /\ Range(enqueued) = Range(dispatched) \cup Range(Pending)
  /\ Range(dispatched) \cap Range(Pending) = {}

\* During a second drain, after a fault, records are in all three places:
\* dispatched, waiting in the batch, and waiting in the available queue.
C19_Witness ==
  /\ pc = "handler"
  /\ available = 0
  /\ warnings >= 1
  /\ Len(dispatched) >= 2
  /\ queues[processing].count - Undispatched >= 1
  /\ queues[available].count >= 1
  /\ last.op = "job"
  /\ last.outcome = "nested"

\* The step that follows the raise of process_all inside a handler, and
\* the step that ends a drain.
C20_RecursiveStep ==
  /\ (pc = "raising") =>
       /\ last'.op = "processed"
       /\ last'.ret # 0
       /\ warnings' = warnings + 1
       /\ processing_flag' = 1
       /\ pc' = "loop"
       /\ index' = index + 1
       /\ IsCleared(Queue_at(queues'[processing], index))
       /\ Pending' = Pending
       /\ UNCHANGED <<available, processing, via, batch, enqueued,
                      dispatched, triggered>>
  /\ (Draining /\ processing_flag' = 0) =>
       /\ index = batch.count
       /\ Len(dispatched') = batch.first + batch.count

\* C20: the error process_all raises inside a handler of a drain ends that
\* handler as a fault: it is reported as a warning, the slot is reset, the
\* guard flag stays set and the roles stay as they are; the drain goes on
\* with the next record, the records still pending stay in order, and the
\* drain returns to idle only after every record of the batch has been
\* dispatched, each once, which it does when every handler ends.
C20_RecursiveFlushContained ==
  /\ [][C20_RecursiveStep]_vars
  /\ [](/\ (pc = "raising") =>
             /\ processing_flag = 1
             /\ last = [op |-> "process_all", outcome |-> "raise",
                        ret |-> 0]
             /\ index < batch.count
        /\ InOrder
        /\ Cardinality(Range(dispatched)) = Len(dispatched))
  /\ \A n \in 0..(2 * MaxObjects) :
       (pc = "raising" /\ batch.first + batch.count = n)
         ~> (pc = "idle" /\ Len(dispatched) = n)

\* The handler of the second record of a batch of three, run by the job,
\* has called process_all, which raised; a record is still to dispatch.
C20_Witness ==
  /\ pc = "raising"
  /\ via = "job"
  /\ index = 1
  /\ batch.count = 3
  /\ warnings = 0
  /\ Len(dispatched) = batch.first + 2

====
